---- MODULE Spec2Model ----
(***************************************************************************)
(* Model of package container (src/container/container.go): the two-point  *)
(* sampling of container counters (collectStats, calculateCPUPercent), the *)
(* fan-out / barrier / drain of one collection cycle (GetContainerStats)   *)
(* and the shared store Cstats guarded by StMu.                            *)
(*                                                                         *)
(* float64 values are modelled as exact rationals <<num, den>> in lowest   *)
(* terms (den > 0); rounding of float64 is not modelled.  The uint64       *)
(* counters of container.StatsResponse keep their unsigned wrap-around,    *)
(* with the width scaled down from 64 to CounterBits bits.                 *)
(***************************************************************************)
EXTENDS Integers, Sequences, FiniteSets, TLC

(* ------------------------------ bounds --------------------------------- *)

\* Largest number of containers one ContainerList call returns.
MaxTargets == 2

\* Width, in bits, of the modelled unsigned counters (uint64 in the source).
CounterBits == 16

Modulus == 2 ^ CounterBits

(* ----------------------- float64 as exact rationals -------------------- *)

Abs(x) == IF x < 0 THEN -x ELSE x

\* Euclid's algorithm on naturals.
GCD[a \in Nat, b \in Nat] == IF b = 0 THEN a ELSE GCD[b, a % b]

\* The rational n/d (d # 0) in lowest terms with a positive denominator.
Rat(n, d) ==
    LET g == GCD[Abs(n), Abs(d)]
        s == IF d < 0 THEN -1 ELSE 1
    IN  << (s * n) \div g, (s * d) \div g >>

\* float64(x) of an integer x.
Float(x) == << x, 1 >>

FSub(x, y) == Rat(x[1] * y[2] - y[1] * x[2], x[2] * y[2])
FMul(x, y) == Rat(x[1] * y[1], x[2] * y[2])
\* x / y for y # 0 (every division of the source is guarded).
FDiv(x, y) == Rat(x[1] * y[2], x[2] * y[1])
FLeq(x, y) == x[1] * y[2] <= y[1] * x[2]
FGt(x, y)  == x[1] * y[2] > y[1] * x[2]

\* Unsigned subtraction of two counters: wraps modulo 2^width.
USub(a, b) == (a - b) % Modulus

(* -------------------- container.StatsResponse -------------------------- *)

\* MemoryStats.Stats without a "cache" entry.
NoMemStats == [x \in {} |-> 0]
MemStatsWithCache(v) == [x \in {"cache"} |-> v]

\* The zero value of container.StatsResponse (var prevStats, var currentStats).
ZeroStats ==
    [TotalUsage |-> 0, SystemUsage |-> 0, OnlineCPUs |-> 0,
     Usage |-> 0, Stats |-> NoMemStats, Limit |-> 0]

calculateCPUPercent(current, previous) ==
    LET cpuDelta    == Float(USub(current.TotalUsage, previous.TotalUsage))
        systemDelta == Float(USub(current.SystemUsage, previous.SystemUsage))
        onlineCPUs  == Float(current.OnlineCPUs)
    IN  IF FLeq(systemDelta, Float(0)) \/ FLeq(onlineCPUs, Float(0))
        THEN Float(0)
        ELSE FMul(FMul(FDiv(cpuDelta, systemDelta), onlineCPUs), Float(100))

\* memPercentOf with the cache subtracted between the unsigned counters,
\* before the conversion to float64.
memPercentOf_UnsignedUsage(currentStats) ==
    LET memUsage == IF "cache" \in DOMAIN currentStats.Stats
                    THEN Float(USub(currentStats.Usage, currentStats.Stats["cache"]))
                    ELSE Float(currentStats.Usage)
        memLimit == Float(currentStats.Limit)
    IN  IF FGt(memLimit, Float(0))
        THEN FMul(FDiv(memUsage, memLimit), Float(100))
        ELSE Float(0)

\* Lines 85-95 of collectStats: the memory percentage of the second snapshot.
memPercentOf(currentStats) ==
    LET memUsage0 == Float(currentStats.Usage)
        memUsage  == IF "cache" \in DOMAIN currentStats.Stats
                     THEN FSub(memUsage0, Float(currentStats.Stats["cache"]))
                     ELSE memUsage0
        memLimit  == Float(currentStats.Limit)
    IN  IF FGt(memLimit, Float(0))
        THEN FMul(FDiv(memUsage, memLimit), Float(100))
        ELSE Float(0)

(* ------------------------- names and results --------------------------- *)

\* strings.TrimPrefix on strings modelled as sequences of characters.
TrimPrefix(s, prefix) ==
    IF Len(s) >= Len(prefix) /\ SubSeq(s, 1, Len(prefix)) = prefix
    THEN SubSeq(s, Len(prefix) + 1, Len(s))
    ELSE s

\* map[string]map[string]float64 with the single key name.
SingleResult(name, metrics) == [n \in {name} |-> metrics]

\* The sentinel every failure path sends: {Names[0]: {"error": 1.0}}.
ErrorResult(containerSummary) ==
    SingleResult(containerSummary.Names[1], [error |-> Float(1)])

\* Lines 97-104: the result of a successful sampling.
StatsResult(containerSummary, cpuPercent, memPercent) ==
    SingleResult(TrimPrefix(containerSummary.Names[1], <<"/">>),
                 [cpu |-> cpuPercent, mem |-> memPercent])

\* make(map[string]map[string]float64)
EmptyMap == [n \in {} |-> [error |-> Float(1)]]

\* maps.Copy replaced by an assignment: the destination is overwritten.
MapsCopy_Replace(dst, src) == src

\* maps.Copy(dst, src)
MapsCopy(dst, src) ==
    [n \in (DOMAIN dst) \cup (DOMAIN src) |->
        IF n \in DOMAIN src THEN src[n] ELSE dst[n]]

(* --------------------------- the environment -------------------------- *)

\* Goroutines that run GetContainerStats (a cycle each, possibly overlapping).
Cycles == {"g1", "g2"}

\* Goroutines that read Cstats.Stats under Cstats.StMu.
Readers == {"r1"}

ContainerIDs == {"a", "b", "c"}
IDOrder == <<"a", "b", "c">>

\* A container.Summary of ContainerList: the daemon reports every container
\* with at least one name, and every name starts with "/".
Summary(id) == [ID |-> id, Names |-> << <<"/", id>> >>]

ListOf(S) ==
    LET ids == SelectSeq(IDOrder, LAMBDA x : x \in S)
    IN  [i \in 1..Len(ids) |-> Summary(ids[i])]

\* containers.Items: the lists a ContainerList call may return.
TargetLists ==
    { ListOf(S) : S \in {T \in SUBSET ContainerIDs : Cardinality(T) <= MaxTargets} }

Snapshot(tu, su, cpus, usage, stats, limit) ==
    [TotalUsage |-> tu, SystemUsage |-> su, OnlineCPUs |-> cpus,
     Usage |-> usage, Stats |-> stats, Limit |-> limit]

\* What the daemon answers to the first ContainerStats call of a container.
FirstSnapshots(id) ==
    CASE id = "a" -> { Snapshot(100, 1000, 2, 60, MemStatsWithCache(10), 100) }
      [] id = "b" -> { Snapshot(500, 2000, 1, 20, MemStatsWithCache(30), 200) }
      [] OTHER    -> { Snapshot(700, 3000, 4, 10, NoMemStats, 0) }

\* What it answers to the second call, one interval later.
SecondSnapshots(id) ==
    CASE id = "a" -> { Snapshot(150, 1100, 2, 80, MemStatsWithCache(10), 100),
                       Snapshot(100, 1000, 2, 60, MemStatsWithCache(10), 100) }
      [] id = "b" -> { Snapshot(600, 2400, 1, 20, MemStatsWithCache(30), 200) }
      [] OTHER    -> { Snapshot(710, 100, 4, 10, NoMemStats, 0) }

(* ------------------------------- state --------------------------------- *)

VARIABLES
    Stats,       \* Cstats.Stats
    StMu,        \* Cstats.StMu: "unlocked" or the goroutine holding it
    pc,          \* pc[c]: where GetContainerStats call c stands
    containers,  \* containers[c]: containers.Items of call c
    idx,         \* idx[c]: position of the range loop that spawns samplers
    wg,          \* wg[c]: the WaitGroup counter of call c
    resultChan,  \* resultChan[c]: the buffered channel of call c
    samplers,    \* samplers[c][k]: the collectStats goroutine of target k
    installs,    \* installs[c]: assignments to Cstats.Stats made by call c
    installed,   \* Cstats.Stats as of the latest Unlock by a cycle
    rpc,         \* rpc[r]: where reader r stands
    view         \* view[r]: what reader r read

vars == << Stats, StMu, pc, containers, idx, wg, resultChan, samplers,
           installs, installed, rpc, view >>

\* A collectStats goroutine that has not been started.
Unborn == [pc |-> "unborn", err |-> "nil", prevStats |-> ZeroStats,
           currentStats |-> ZeroStats, out |-> EmptyMap]

NoChan == [buf |-> << >>, cap |-> 0, closed |-> FALSE]

\* Init(i): an empty store and a fresh mutex; no cycle is running.
Init ==
    /\ Stats = EmptyMap
    /\ StMu = "unlocked"
    /\ pc = [c \in Cycles |-> "idle"]
    /\ containers = [c \in Cycles |-> << >>]
    /\ idx = [c \in Cycles |-> 0]
    /\ wg = [c \in Cycles |-> 0]
    /\ resultChan = [c \in Cycles |-> NoChan]
    /\ samplers = [c \in Cycles |-> << >>]
    /\ installs = [c \in Cycles |-> 0]
    /\ installed = EmptyMap
    /\ rpc = [r \in Readers |-> "idle"]
    /\ view = [r \in Readers |-> EmptyMap]

(* --------------------------- GetContainerStats ------------------------- *)

\* Lines 169-177: the call starts and opens the Docker client.
NewClient(c) ==
    /\ pc[c] \in {"idle", "failed", "returned"}
    /\ installs' = [installs EXCEPT ![c] = 0]
    /\ \/ pc' = [pc EXCEPT ![c] = "failed"]       \* client.New failed: line 176
       \/ pc' = [pc EXCEPT ![c] = "list"]
    /\ UNCHANGED << Stats, StMu, containers, idx, wg, resultChan, samplers,
                    installed, rpc, view >>

\* ContainerList with the store emptied before the error is looked at.
ContainerList_ResetsStore(c, lists) ==
    /\ pc[c] = "list"
    /\ Stats' = EmptyMap
    /\ \/ /\ pc' = [pc EXCEPT ![c] = "failed"]
          /\ UNCHANGED << containers, idx, wg, resultChan, samplers >>
       \/ \E items \in lists :
            /\ containers' = [containers EXCEPT ![c] = items]
            /\ wg' = [wg EXCEPT ![c] = 0]
            /\ resultChan' = [resultChan EXCEPT
                                ![c] = [buf |-> << >>, cap |-> Len(items),
                                        closed |-> FALSE]]
            /\ samplers' = [samplers EXCEPT ![c] = [k \in 1..Len(items) |-> Unborn]]
            /\ idx' = [idx EXCEPT ![c] = 1]
            /\ pc' = [pc EXCEPT ![c] = IF Len(items) = 0 THEN "wait" ELSE "spawn"]
    /\ UNCHANGED << StMu, installs, installed, rpc, view >>

\* ContainerList followed by make(chan ...) without a capacity: the channel
\* is unbuffered.
ContainerList_Unbuffered(c, lists) ==
    /\ pc[c] = "list"
    /\ \/ /\ pc' = [pc EXCEPT ![c] = "failed"]
          /\ UNCHANGED << containers, idx, wg, resultChan, samplers >>
       \/ \E items \in lists :
            /\ containers' = [containers EXCEPT ![c] = items]
            /\ wg' = [wg EXCEPT ![c] = 0]
            /\ resultChan' = [resultChan EXCEPT
                                ![c] = [buf |-> << >>, cap |-> 0,
                                        closed |-> FALSE]]
            /\ samplers' = [samplers EXCEPT ![c] = [k \in 1..Len(items) |-> Unborn]]
            /\ idx' = [idx EXCEPT ![c] = 1]
            /\ pc' = [pc EXCEPT ![c] = IF Len(items) = 0 THEN "wait" ELSE "spawn"]
    /\ UNCHANGED << Stats, StMu, installs, installed, rpc, view >>

\* ContainerList followed by a return when no container is listed.
ContainerList_ReturnsOnEmpty(c, lists) ==
    /\ pc[c] = "list"
    /\ \/ /\ pc' = [pc EXCEPT ![c] = "failed"]
          /\ UNCHANGED << containers, idx, wg, resultChan, samplers >>
       \/ \E items \in lists :
            IF Len(items) = 0
            THEN /\ pc' = [pc EXCEPT ![c] = "returned"]
                 /\ UNCHANGED << containers, idx, wg, resultChan, samplers >>
            ELSE /\ containers' = [containers EXCEPT ![c] = items]
                 /\ wg' = [wg EXCEPT ![c] = 0]
                 /\ resultChan' = [resultChan EXCEPT
                                     ![c] = [buf |-> << >>, cap |-> Len(items),
                                             closed |-> FALSE]]
                 /\ samplers' = [samplers EXCEPT
                                   ![c] = [k \in 1..Len(items) |-> Unborn]]
                 /\ idx' = [idx EXCEPT ![c] = 1]
                 /\ pc' = [pc EXCEPT ![c] = "spawn"]
    /\ UNCHANGED << Stats, StMu, installs, installed, rpc, view >>

\* Lines 179-188: list the containers, make the WaitGroup and the channel.
ContainerList(c, lists) ==
    /\ pc[c] = "list"
    /\ \/ /\ pc' = [pc EXCEPT ![c] = "failed"]    \* ContainerList failed: line 183
          /\ UNCHANGED << containers, idx, wg, resultChan, samplers >>
       \/ \E items \in lists :
            /\ containers' = [containers EXCEPT ![c] = items]
            /\ wg' = [wg EXCEPT ![c] = 0]
            /\ resultChan' = [resultChan EXCEPT
                                ![c] = [buf |-> << >>, cap |-> Len(items),
                                        closed |-> FALSE]]
            /\ samplers' = [samplers EXCEPT ![c] = [k \in 1..Len(items) |-> Unborn]]
            /\ idx' = [idx EXCEPT ![c] = 1]
            /\ pc' = [pc EXCEPT ![c] = IF Len(items) = 0 THEN "wait" ELSE "spawn"]
    /\ UNCHANGED << Stats, StMu, installs, installed, rpc, view >>

\* The range loop starting a sampler without wg.Add(1).
Spawn_NoAdd(c) ==
    /\ pc[c] = "spawn"
    /\ samplers' = [samplers EXCEPT ![c][idx[c]].pc = "fetch0"]
    /\ idx' = [idx EXCEPT ![c] = @ + 1]
    /\ pc' = [pc EXCEPT ![c] = IF idx[c] = Len(containers[c]) THEN "wait" ELSE "spawn"]
    /\ UNCHANGED << Stats, StMu, containers, wg, resultChan, installs, installed,
                    rpc, view >>

\* Lines 191-194: one iteration of the range loop.
Spawn(c) ==
    /\ pc[c] = "spawn"
    /\ wg' = [wg EXCEPT ![c] = @ + 1]
    /\ samplers' = [samplers EXCEPT ![c][idx[c]].pc = "fetch0"]
    /\ idx' = [idx EXCEPT ![c] = @ + 1]
    /\ pc' = [pc EXCEPT ![c] = IF idx[c] = Len(containers[c]) THEN "wait" ELSE "spawn"]
    /\ UNCHANGED << Stats, StMu, containers, resultChan, installs, installed,
                    rpc, view >>

\* GetContainerStats going on without waiting for the WaitGroup.
WgWait_NoBarrier(c) ==
    /\ pc[c] = "wait"
    /\ pc' = [pc EXCEPT ![c] = "close"]
    /\ UNCHANGED << Stats, StMu, containers, idx, wg, resultChan, samplers,
                    installs, installed, rpc, view >>

\* Line 197: wg.Wait() returns once the counter is zero.
WgWait(c) ==
    /\ pc[c] = "wait"
    /\ wg[c] = 0
    /\ pc' = [pc EXCEPT ![c] = "close"]
    /\ UNCHANGED << Stats, StMu, containers, idx, wg, resultChan, samplers,
                    installs, installed, rpc, view >>

\* GetContainerStats draining the channel without having closed it.
CloseChan_Forgotten(c) ==
    /\ pc[c] = "close"
    /\ pc' = [pc EXCEPT ![c] = "lock"]
    /\ UNCHANGED << Stats, StMu, containers, idx, wg, resultChan, samplers,
                    installs, installed, rpc, view >>

\* Line 198: close(resultChan).
CloseChan(c) ==
    /\ pc[c] = "close"
    /\ resultChan' = [resultChan EXCEPT ![c].closed = TRUE]
    /\ pc' = [pc EXCEPT ![c] = "lock"]
    /\ UNCHANGED << Stats, StMu, containers, idx, wg, samplers, installs,
                    installed, rpc, view >>

\* GetContainerStats going on to the swap without taking the mutex.
Lock_NoMutex(c) ==
    /\ pc[c] = "lock"
    /\ pc' = [pc EXCEPT ![c] = "make"]
    /\ UNCHANGED << Stats, StMu, containers, idx, wg, resultChan, samplers,
                    installs, installed, rpc, view >>

\* Line 201: Cstats.StMu.Lock().
Lock(c) ==
    /\ pc[c] = "lock"
    /\ StMu = "unlocked"
    /\ StMu' = c
    /\ pc' = [pc EXCEPT ![c] = "make"]
    /\ UNCHANGED << Stats, containers, idx, wg, resultChan, samplers, installs,
                    installed, rpc, view >>

\* The swap filling the map the store already holds instead of a new one.
MakeStats_KeepsMap(c) ==
    /\ pc[c] = "make"
    /\ installs' = [installs EXCEPT ![c] = @ + 1]
    /\ pc' = [pc EXCEPT ![c] = "drain"]
    /\ UNCHANGED << Stats, StMu, containers, idx, wg, resultChan, samplers,
                    installed, rpc, view >>

\* Line 202: Cstats.Stats = make(...).
MakeStats(c) ==
    /\ pc[c] = "make"
    /\ Stats' = EmptyMap
    /\ installs' = [installs EXCEPT ![c] = @ + 1]
    /\ pc' = [pc EXCEPT ![c] = "drain"]
    /\ UNCHANGED << StMu, containers, idx, wg, resultChan, samplers, installed,
                    rpc, view >>

\* Lines 203-205: for result := range resultChan { maps.Copy(...) }.
Drain(c) ==
    /\ pc[c] = "drain"
    /\ \/ /\ resultChan[c].buf # << >>
          /\ Stats' = MapsCopy(Stats, Head(resultChan[c].buf))
          /\ resultChan' = [resultChan EXCEPT ![c].buf = Tail(@)]
          /\ pc' = pc
       \/ /\ resultChan[c].buf = << >>
          /\ resultChan[c].closed
          /\ pc' = [pc EXCEPT ![c] = "unlock"]
          /\ UNCHANGED << Stats, resultChan >>
    /\ UNCHANGED << StMu, containers, idx, wg, samplers, installs, installed,
                    rpc, view >>

\* GetContainerStats returning without Cstats.StMu.Unlock().
Unlock_Forgotten(c) ==
    /\ pc[c] = "unlock"
    /\ installed' = Stats
    /\ pc' = [pc EXCEPT ![c] = "returned"]
    /\ containers' = [containers EXCEPT ![c] = << >>]
    /\ idx' = [idx EXCEPT ![c] = 0]
    /\ resultChan' = [resultChan EXCEPT ![c] = NoChan]
    /\ samplers' = [samplers EXCEPT ![c] = << >>]
    /\ UNCHANGED << Stats, StMu, wg, installs, rpc, view >>

\* Lines 206-208: Cstats.StMu.Unlock() and return; the locals die.
Unlock(c) ==
    /\ pc[c] = "unlock"
    /\ StMu' = "unlocked"
    /\ installed' = Stats
    /\ pc' = [pc EXCEPT ![c] = "returned"]
    /\ containers' = [containers EXCEPT ![c] = << >>]
    /\ idx' = [idx EXCEPT ![c] = 0]
    /\ resultChan' = [resultChan EXCEPT ![c] = NoChan]
    /\ samplers' = [samplers EXCEPT ![c] = << >>]
    /\ UNCHANGED << Stats, wg, installs, rpc, view >>

(* ------------------------------ collectStats --------------------------- *)

Targets(c) == DOMAIN samplers[c]

\* A failure path that returns without sending anything.
Fail_NoSend(c, k) ==
    samplers' = [samplers EXCEPT ![c][k].pc = "deferred",
                                 ![c][k].err = "error"]

\* A failure path: the sentinel is about to be sent (lines 54, 61, 71, 78).
Fail(c, k) ==
    samplers' = [samplers EXCEPT ![c][k].pc = "send",
                                 ![c][k].err = "error",
                                 ![c][k].out = ErrorResult(containers[c][k])]

\* Lines 52-56: the first ContainerStats call.
FetchFirst(c, k) ==
    /\ samplers[c][k].pc = "fetch0"
    /\ \/ Fail(c, k)
       \/ samplers' = [samplers EXCEPT ![c][k].pc = "decode0"]
    /\ UNCHANGED << Stats, StMu, pc, containers, idx, wg, resultChan, installs,
                    installed, rpc, view >>

\* The first answer decoded and the second call issued at once, the interval
\* not waited for.
DecodeFirst_NoSleep(c, k) ==
    /\ samplers[c][k].pc = "decode0"
    /\ \/ Fail(c, k)
       \/ \E s \in FirstSnapshots(containers[c][k].ID) :
            samplers' = [samplers EXCEPT ![c][k].pc = "fetch1",
                                         ![c][k].prevStats = s]
    /\ UNCHANGED << Stats, StMu, pc, containers, idx, wg, resultChan, installs,
                    installed, rpc, view >>

\* Lines 59-63: decode the first answer into prevStats.
DecodeFirst(c, k) ==
    /\ samplers[c][k].pc = "decode0"
    /\ \/ Fail(c, k)
       \/ \E s \in FirstSnapshots(containers[c][k].ID) :
            samplers' = [samplers EXCEPT ![c][k].pc = "sleep",
                                         ![c][k].prevStats = s]
    /\ UNCHANGED << Stats, StMu, pc, containers, idx, wg, resultChan, installs,
                    installed, rpc, view >>

\* Line 66: time.Sleep(Interval).
Sleep(c, k) ==
    /\ samplers[c][k].pc = "sleep"
    /\ samplers' = [samplers EXCEPT ![c][k].pc = "fetch1"]
    /\ UNCHANGED << Stats, StMu, pc, containers, idx, wg, resultChan, installs,
                    installed, rpc, view >>

\* Lines 69-73: the second ContainerStats call.
FetchSecond(c, k) ==
    /\ samplers[c][k].pc = "fetch1"
    /\ \/ Fail(c, k)
       \/ samplers' = [samplers EXCEPT ![c][k].pc = "decode1"]
    /\ UNCHANGED << Stats, StMu, pc, containers, idx, wg, resultChan, installs,
                    installed, rpc, view >>

\* Lines 76-80: decode the second answer into currentStats.
DecodeSecond(c, k) ==
    /\ samplers[c][k].pc = "decode1"
    /\ \/ Fail(c, k)
       \/ \E s \in SecondSnapshots(containers[c][k].ID) :
            samplers' = [samplers EXCEPT ![c][k].pc = "compute",
                                         ![c][k].currentStats = s]
    /\ UNCHANGED << Stats, StMu, pc, containers, idx, wg, resultChan, installs,
                    installed, rpc, view >>

\* Compute reading the loop variable of the spawning loop instead of its
\* own argument: every sampler labels its result with the last container.
Compute_LastTarget(c, k) ==
    /\ samplers[c][k].pc = "compute"
    /\ LET cpuPercent == calculateCPUPercent(samplers[c][k].currentStats,
                                             samplers[c][k].prevStats)
           memPercent == memPercentOf(samplers[c][k].currentStats)
       IN  samplers' = [samplers EXCEPT
                          ![c][k].pc = "send",
                          ![c][k].out = StatsResult(containers[c][Len(containers[c])],
                                                    cpuPercent, memPercent)]
    /\ UNCHANGED << Stats, StMu, pc, containers, idx, wg, resultChan, installs,
                    installed, rpc, view >>

\* Lines 82-104: the metrics of a successful sampling and their result.
Compute(c, k) ==
    /\ samplers[c][k].pc = "compute"
    /\ LET cpuPercent == calculateCPUPercent(samplers[c][k].currentStats,
                                             samplers[c][k].prevStats)
           memPercent == memPercentOf(samplers[c][k].currentStats)
       IN  samplers' = [samplers EXCEPT
                          ![c][k].pc = "send",
                          ![c][k].out = StatsResult(containers[c][k],
                                                    cpuPercent, memPercent)]
    /\ UNCHANGED << Stats, StMu, pc, containers, idx, wg, resultChan, installs,
                    installed, rpc, view >>

\* The samplers of every call sending on one channel shared by all calls
\* (that of "g1") instead of the channel of their own call.
Send_SharedChannel(c, k) ==
    /\ samplers[c][k].pc = "send"
    /\ resultChan["g1"].closed \/ Len(resultChan["g1"].buf) < resultChan["g1"].cap
    /\ IF resultChan["g1"].closed
       THEN /\ samplers' = [samplers EXCEPT ![c][k].pc = "panic"]
            /\ UNCHANGED resultChan
       ELSE /\ resultChan' = [resultChan EXCEPT
                                !["g1"].buf = Append(@, samplers[c][k].out)]
            /\ samplers' = [samplers EXCEPT ![c][k].pc = "deferred"]
    /\ UNCHANGED << Stats, StMu, pc, containers, idx, wg, installs, installed,
                    rpc, view >>

\* resultChan <- result: blocks while the buffer is full, panics once the
\* channel is closed.
Send(c, k) ==
    /\ samplers[c][k].pc = "send"
    /\ resultChan[c].closed \/ Len(resultChan[c].buf) < resultChan[c].cap
    /\ IF resultChan[c].closed
       THEN /\ samplers' = [samplers EXCEPT ![c][k].pc = "panic"]
            /\ UNCHANGED resultChan
       ELSE /\ resultChan' = [resultChan EXCEPT
                                ![c].buf = Append(@, samplers[c][k].out)]
            /\ samplers' = [samplers EXCEPT ![c][k].pc = "deferred"]
    /\ UNCHANGED << Stats, StMu, pc, containers, idx, wg, installs, installed,
                    rpc, view >>

\* Line 49: the deferred wg.Done() runs as collectStats returns.
WgDone(c, k) ==
    /\ samplers[c][k].pc = "deferred"
    /\ IF wg[c] = 0
       THEN /\ samplers' = [samplers EXCEPT ![c][k].pc = "panic"]
            /\ UNCHANGED wg
       ELSE /\ wg' = [wg EXCEPT ![c] = @ - 1]
            /\ samplers' = [samplers EXCEPT ![c][k].pc = "exited"]
    /\ UNCHANGED << Stats, StMu, pc, containers, idx, resultChan, installs,
                    installed, rpc, view >>

(* -------------------------------- readers ------------------------------ *)

\* A reader takes StMu and copies the map.
ReaderLock(r) ==
    /\ rpc[r] = "idle"
    /\ StMu = "unlocked"
    /\ StMu' = r
    /\ view' = [view EXCEPT ![r] = Stats]
    /\ rpc' = [rpc EXCEPT ![r] = "read"]
    /\ UNCHANGED << Stats, pc, containers, idx, wg, resultChan, samplers,
                    installs, installed >>

\* The reader releases StMu and uses its copy.
ReaderUnlock(r) ==
    /\ rpc[r] = "read"
    /\ StMu' = "unlocked"
    /\ view' = [view EXCEPT ![r] = EmptyMap]
    /\ rpc' = [rpc EXCEPT ![r] = "idle"]
    /\ UNCHANGED << Stats, pc, containers, idx, wg, resultChan, samplers,
                    installs, installed >>

(* ----------------------------- specification --------------------------- *)

SamplerStep(c) ==
    \E k \in Targets(c) :
        \/ FetchFirst(c, k)
        \/ DecodeFirst(c, k)
        \/ Sleep(c, k)
        \/ FetchSecond(c, k)
        \/ DecodeSecond(c, k)
        \/ Compute(c, k)
        \/ Send(c, k)
        \/ WgDone(c, k)

\* The steps of a call of GetContainerStats after its first.
CycleRuns(c) ==
    \/ ContainerList(c, TargetLists)
    \/ Spawn(c)
    \/ WgWait(c)
    \/ CloseChan(c)
    \/ Lock(c)
    \/ MakeStats(c)
    \/ Drain(c)
    \/ Unlock(c)

CycleStep(c) == NewClient(c) \/ CycleRuns(c)

ReaderStep(r) == ReaderLock(r) \/ ReaderUnlock(r)

\* One goroutine calls GetContainerStats again and again (a cycle after the
\* other) while the readers read.
Next ==
    \/ CycleStep("g1")
    \/ SamplerStep("g1")
    \/ \E r \in Readers : ReaderStep(r)

Spec == Init /\ [][Next]_vars

\* The calls of a sampler to the daemon, which may take for ever, and its
\* other steps, which the Go scheduler runs.
SamplerFetches(c, k) ==
    /\ k \in Targets(c)
    /\ \/ FetchFirst(c, k)
       \/ DecodeFirst(c, k)
       \/ FetchSecond(c, k)
       \/ DecodeSecond(c, k)

SamplerRuns(c, k) ==
    /\ k \in Targets(c)
    /\ \/ Sleep(c, k)
       \/ Compute(c, k)
       \/ Send(c, k)
       \/ WgDone(c, k)

\* What the Go runtime guarantees: a runnable goroutine runs, a goroutine
\* waiting for the mutex gets it (sync.Mutex hands it over to a starving
\* waiter), and a reader gives the mutex back.
SchedulerFairness ==
    /\ WF_vars(CycleRuns("g1"))
    /\ SF_vars(Lock("g1"))
    /\ \A k \in 1..MaxTargets : WF_vars(SamplerRuns("g1", k))
    /\ \A r \in Readers : WF_vars(ReaderUnlock(r))

\* The first call of GetContainerStats after Init, beside the readers.
FirstCall(c) == pc[c] = "idle" /\ NewClient(c)

NextFirstCall ==
    \/ FirstCall("g1")
    \/ CycleRuns("g1")
    \/ SamplerStep("g1")
    \/ \E r \in Readers : ReaderStep(r)

\* One cycle in which every call to the daemon returns in the end.
FairSpec ==
    /\ Init /\ [][NextFirstCall]_vars
    /\ SchedulerFairness
    /\ \A k \in 1..MaxTargets : WF_vars(SamplerFetches("g1", k))

\* One cycle in which a call to the daemon may never return.
FairSpecHang ==
    /\ Init /\ [][NextFirstCall]_vars
    /\ SchedulerFairness

\* One cycle, a call to the daemon may never return, and a reader that waits
\* for the mutex gets it once it is free often enough.
FairSpecReaders ==
    /\ FairSpecHang
    /\ \A r \in Readers : SF_vars(ReaderLock(r))

\* Two goroutines call GetContainerStats at the same time while the set of
\* containers changes: the first is answered the containers a and b or b
\* alone, the second a alone, a and c, or no container.
OverlapLists(c) ==
    IF c = "g1"
    THEN { ListOf({"a", "b"}), ListOf({"b"}) }
    ELSE { ListOf({"a"}), ListOf({"a", "c"}), << >> }

OverlapStep(c) ==
    \/ FirstCall(c)
    \/ ContainerList(c, OverlapLists(c))
    \/ Spawn(c)
    \/ WgWait(c)
    \/ CloseChan(c)
    \/ Lock(c)
    \/ MakeStats(c)
    \/ Drain(c)
    \/ Unlock(c)
    \/ SamplerStep(c)

NextOverlap == \E c \in Cycles : OverlapStep(c)

SpecOverlap == Init /\ [][NextOverlap]_vars

\* The results collectStats can send for the container id: the sentinel, or
\* the metrics of one of its first and one of its second snapshots.
ResultsOf(id) ==
    { ErrorResult(Summary(id)) } \cup
    { StatsResult(Summary(id), calculateCPUPercent(s1, s0), memPercentOf(s1)) :
        s0 \in FirstSnapshots(id), s1 \in SecondSnapshots(id) }

\* The maps a cycle over at least one container leaves in the store: one
\* result for each container of its list.
PreviousAggregates ==
    { [n \in UNION { DOMAIN f[id] : id \in DOMAIN f } |->
          f[CHOOSE id \in DOMAIN f : n \in DOMAIN f[id]][n]] :
        f \in UNION { { g \in [S -> UNION { ResultsOf(id) : id \in S }] :
                          \A id \in S : g[id] \in ResultsOf(id) } :
                      S \in { T \in SUBSET ContainerIDs :
                                Cardinality(T) \in 1..MaxTargets } } }

\* The call "g2" has completed a cycle over some containers and returned;
\* the store holds its Aggregate.
InitAfterCycle ==
    /\ Stats \in PreviousAggregates
    /\ installed = Stats
    /\ StMu = "unlocked"
    /\ pc = [c \in Cycles |-> IF c = "g2" THEN "returned" ELSE "idle"]
    /\ containers = [c \in Cycles |-> << >>]
    /\ idx = [c \in Cycles |-> 0]
    /\ wg = [c \in Cycles |-> 0]
    /\ resultChan = [c \in Cycles |-> NoChan]
    /\ samplers = [c \in Cycles |-> << >>]
    /\ installs = [c \in Cycles |-> IF c = "g2" THEN 1 ELSE 0]
    /\ rpc = [r \in Readers |-> "idle"]
    /\ view = [r \in Readers |-> EmptyMap]

\* The steps of a call that is answered an empty list of containers: the
\* range loop of lines 191-194 has no iteration.
EmptyCycleRuns(c) ==
    \/ ContainerList(c, { << >> })
    \/ WgWait(c)
    \/ CloseChan(c)
    \/ Lock(c)
    \/ MakeStats(c)
    \/ Drain(c)
    \/ Unlock(c)

\* All containers are gone: "g1" calls GetContainerStats again and again
\* beside the readers.
NextEmptyList ==
    \/ NewClient("g1")
    \/ EmptyCycleRuns("g1")
    \/ \E r \in Readers : ReaderStep(r)

FairSpecEmptyList ==
    /\ InitAfterCycle /\ [][NextEmptyList]_vars
    /\ WF_vars(EmptyCycleRuns("g1"))
    /\ SF_vars(Lock("g1"))
    /\ \A r \in Readers : WF_vars(ReaderUnlock(r))

(* ------------- the metric computation over ranges of counters --------- *)

\* Counter readings the daemon may report: idle, advancing, reset and the
\* top of the counter's range.
CpuReadings == {0, 100, 150}
SystemReadings == {0, 1000, 1100, Modulus - 1}

\* First snapshots: the counters calculateCPUPercent reads of them vary.
CalcFirstSnapshots ==
    { Snapshot(tu, su, 1, mem[1], mem[2], mem[3]) :
        tu \in CpuReadings, su \in SystemReadings,
        mem \in { <<0, NoMemStats, 0>>, <<50, MemStatsWithCache(5), 400>> } }

\* Second snapshots: every field the metrics read varies.
CalcSecondSnapshots ==
    { Snapshot(tu, su, cpus, usage, stats, limit) :
        tu \in CpuReadings, su \in SystemReadings, cpus \in {0, 1, 2},
        usage \in {0, 80},
        stats \in {NoMemStats, MemStatsWithCache(10), MemStatsWithCache(90)},
        limit \in {0, 100} }

\* A cycle over the single container "a" whose sampler has decoded both of
\* its snapshots and is about to compute the metrics (line 82).
InitCalc ==
    /\ Stats = EmptyMap
    /\ StMu = "unlocked"
    /\ pc = [c \in Cycles |-> IF c = "g1" THEN "wait" ELSE "idle"]
    /\ containers = [c \in Cycles |-> IF c = "g1" THEN ListOf({"a"}) ELSE << >>]
    /\ idx = [c \in Cycles |-> IF c = "g1" THEN 2 ELSE 0]
    /\ wg = [c \in Cycles |-> IF c = "g1" THEN 1 ELSE 0]
    /\ resultChan = [c \in Cycles |->
                        IF c = "g1" THEN [buf |-> << >>, cap |-> 1, closed |-> FALSE]
                        ELSE NoChan]
    /\ \E p \in CalcFirstSnapshots, s \in CalcSecondSnapshots :
         samplers = [c \in Cycles |->
                        IF c = "g1"
                        THEN << [pc |-> "compute", err |-> "nil", prevStats |-> p,
                                 currentStats |-> s, out |-> EmptyMap] >>
                        ELSE << >>]
    /\ installs = [c \in Cycles |-> 0]
    /\ installed = EmptyMap
    /\ rpc = [r \in Readers |-> "idle"]
    /\ view = [r \in Readers |-> EmptyMap]

\* The rest of that cycle: compute, send, barrier, drain and swap.
NextCalc ==
    \/ \E k \in Targets("g1") : Compute("g1", k) \/ Send("g1", k) \/ WgDone("g1", k)
    \/ WgWait("g1")
    \/ CloseChan("g1")
    \/ Lock("g1")
    \/ MakeStats("g1")
    \/ Drain("g1")
    \/ Unlock("g1")

SpecCalc == InitCalc /\ [][NextCalc]_vars

(* ------------------------- properties: the metrics --------------------- *)

\* The samplers of cycle c that hold the result of a successful sampling.
Computed(c) ==
    { k \in Targets(c) : /\ samplers[c][k].pc \in {"send", "deferred", "exited"}
                         /\ samplers[c][k].err = "nil" }

\* The metrics sampler k of cycle c computed.
MetricsOf(c, k) ==
    samplers[c][k].out[TrimPrefix(containers[c][k].Names[1], <<"/">>)]

\* C5: calculateCPUPercent returns exactly 0.0 whenever the system-time
\* counter did not advance (the current reading is at most the previous one,
\* a counter reset included) or no processing unit is online.
C5_ZeroWhenSystemStalled ==
    \A c \in Cycles : \A k \in Computed(c) :
        LET current  == samplers[c][k].currentStats
            previous == samplers[c][k].prevStats
        IN  (current.SystemUsage <= previous.SystemUsage \/ current.OnlineCPUs <= 0)
                => MetricsOf(c, k).cpu = Float(0)

\* C6: with the system time advanced and a processing unit online, the cpu
\* metric is (cpuDelta / systemDelta) * onlineUnits * 100 of the two readings'
\* differences, and it is non-negative whenever cpuDelta >= 0.
C6_CpuFormula ==
    \A c \in Cycles : \A k \in Computed(c) :
        LET current     == samplers[c][k].currentStats
            previous    == samplers[c][k].prevStats
            cpuDelta    == current.TotalUsage - previous.TotalUsage
            systemDelta == current.SystemUsage - previous.SystemUsage
        IN  (systemDelta > 0 /\ current.OnlineCPUs > 0)
                => /\ MetricsOf(c, k).cpu =
                        Rat(cpuDelta * current.OnlineCPUs * 100, systemDelta)
                   /\ cpuDelta >= 0 => MetricsOf(c, k).cpu[1] >= 0

\* The cache bytes of a snapshot, 0 when it reports none.
CacheOf(s) == IF "cache" \in DOMAIN s.Stats THEN s.Stats["cache"] ELSE 0

\* C7: the mem metric of a successful sampler is a function of its second
\* snapshot alone: 0 when the limit is not positive, otherwise
\* ((usage - cache) / limit) * 100, negative when cache exceeds usage.
C7_MemFormula ==
    \A c \in Cycles : \A k \in Computed(c) :
        LET current == samplers[c][k].currentStats
        IN  MetricsOf(c, k).mem =
                IF current.Limit <= 0
                THEN << 0, 1 >>
                ELSE Rat((current.Usage - CacheOf(current)) * 100, current.Limit)

\* C7 witness: a result was sent whose cache exceeds the usage under a
\* positive limit, and whose mem metric is negative.
C7_Witness ==
    \E c \in Cycles : \E k \in Computed(c) :
        /\ samplers[c][k].pc = "exited"
        /\ CacheOf(samplers[c][k].currentStats) > samplers[c][k].currentStats.Usage
        /\ samplers[c][k].currentStats.Limit > 0
        /\ MetricsOf(c, k).mem[1] < 0
        /\ samplers[c][k].prevStats.Usage # samplers[c][k].currentStats.Usage

(* -------------------------- properties: a cycle ------------------------ *)

\* The sentinel MetricResult.
Sentinel == [error |-> << 1, 1 >>]

\* The samplers of cycle c that took a failure path.
FailedTargets(c) == { k \in Targets(c) : samplers[c][k].err # "nil" }

\* The display name of target k of cycle c and the same name stripped.
DisplayName(c, k) == containers[c][k].Names[1]
StrippedName(c, k) ==
    IF Head(DisplayName(c, k)) = "/" THEN Tail(DisplayName(c, k)) ELSE DisplayName(c, k)

\* C1: when a cycle over N targets of which K failed at a snapshot has
\* drained its channel, the store holds exactly N keys, exactly K of them
\* with the sentinel (and no cpu or mem entry) and the other N-K with
\* exactly the keys cpu and mem.
C1_OneResultPerTarget ==
    \A c \in Cycles :
        pc[c] = "unlock" =>
            LET N == Len(containers[c])
                K == Cardinality(FailedTargets(c))
            IN  /\ Cardinality(DOMAIN Stats) = N
                /\ Cardinality({ n \in DOMAIN Stats : Stats[n] = Sentinel }) = K
                /\ Cardinality({ n \in DOMAIN Stats :
                                    DOMAIN Stats[n] = {"cpu", "mem"} }) = N - K

\* C1 witness: a cycle over two targets, one of which failed, has drained
\* its channel.
C1_Witness ==
    \E c \in Cycles :
        /\ pc[c] = "unlock"
        /\ Len(containers[c]) = 2
        /\ Cardinality(FailedTargets(c)) = 1
        /\ Cardinality(DOMAIN Stats) = 2

\* C2: after a cycle the keys of the store are the display names of the
\* listed targets with the leading "/" stripped, for failed targets too.
C2_KeysAreStrippedNames ==
    \A c \in Cycles :
        pc[c] = "unlock" =>
            DOMAIN Stats = { StrippedName(c, k) : k \in Targets(c) }

\* C3: whatever a reader reads, also while a cycle is in flight, is the
\* complete Aggregate of the latest completed cycle (the old one until the
\* swap is over, the new one after it), never a partly filled map; and the
\* store is that Aggregate whenever the mutex is free.
C3_ReadersSeeCompleteAggregate ==
    /\ \A r \in Readers : rpc[r] = "read" => view[r] = installed
    /\ StMu = "unlocked" => Stats = installed

\* C3 witness: a reader holds the two-key Aggregate of the previous cycle
\* while the samplers of the next cycle are running.
C3_Witness ==
    \E r \in Readers : \E c \in Cycles :
        /\ rpc[r] = "read"
        /\ Cardinality(DOMAIN view[r]) = 2
        /\ pc[c] = "wait"
        /\ \E k \in Targets(c) : samplers[c][k].pc = "sleep"

\* C4: a call that fails before sampling (no client, or no list) spawns no
\* sampler, does not take the mutex and leaves the store as it was.
C4_FatalFailureLeavesStore ==
    [][ \A c \in Cycles :
          ( /\ pc[c] \in {"idle", "failed", "returned", "list"}
            /\ pc'[c] \in {"list", "failed"}
            /\ pc'[c] # pc[c] )
          => /\ Stats' = Stats
             /\ StMu' = StMu
             /\ StMu # c
             /\ samplers'[c] = << >>
             /\ wg'[c] = 0
             /\ installs'[c] = 0 ]_vars

\* C4 witness: a call has failed while the store holds the two-key Aggregate
\* of an earlier cycle.
C4_Witness ==
    \E c \in Cycles :
        /\ pc[c] = "failed"
        /\ Cardinality(DOMAIN Stats) = 2
        /\ Stats = installed
        /\ StMu = "unlocked"

\* Number of entries of the sequence q equal to x.
Count(q, x) == Cardinality({ i \in 1..Len(q) : q[i] = x })

\* C8: every sampler sends exactly one result and then signals the barrier
\* exactly once: the channel holds one result for each sampler that has
\* sent, the barrier counts the samplers that have not yet signalled, a
\* sampler that failed sends the sentinel, and no sampler panics.
C8_OneResultPerSampler ==
    \A c \in Cycles :
        /\ \A k \in Targets(c) : samplers[c][k].pc # "panic"
        /\ \A k \in FailedTargets(c) :
              /\ Cardinality(DOMAIN samplers[c][k].out) = 1
              /\ \A n \in DOMAIN samplers[c][k].out : samplers[c][k].out[n] = Sentinel
        /\ pc[c] \in {"spawn", "wait", "close", "lock", "make"} =>
              /\ Len(resultChan[c].buf) =
                    Cardinality({ k \in Targets(c) :
                                    samplers[c][k].pc \in {"deferred", "exited"} })
              /\ \A k \in Targets(c) :
                    Count(resultChan[c].buf, samplers[c][k].out) =
                        IF samplers[c][k].pc \in {"deferred", "exited"} THEN 1 ELSE 0
              /\ wg[c] = Cardinality({ k \in Targets(c) :
                                        samplers[c][k].pc \notin {"unborn", "exited"} })

\* C8 witness: both samplers of a cycle have returned, one of them after a
\* failure of its second snapshot, and the channel holds their two results.
C8_Witness ==
    \E c \in Cycles :
        /\ pc[c] = "wait"
        /\ Len(containers[c]) = 2
        /\ \A k \in Targets(c) : samplers[c][k].pc = "exited"
        /\ \E k \in FailedTargets(c) : samplers[c][k].prevStats # ZeroStats
        /\ Len(resultChan[c].buf) = 2
        /\ wg[c] = 0

(* ---------------------- properties: termination ------------------------ *)

\* C9: when every snapshot fetch returns, a call of GetContainerStats that
\* has begun returns, and a call that went through its cycle has assigned
\* the store exactly once.
C9_CycleTerminatesWithOneSwap ==
    /\ \A c \in Cycles :
          (pc[c] \notin {"idle", "failed", "returned"})
              ~> (pc[c] \in {"failed", "returned"})
    /\ [](\A c \in Cycles :
            /\ installs[c] <= 1
            /\ pc[c] \in {"drain", "unlock", "returned"} => installs[c] = 1)

\* C9 witness: a cycle over two targets has returned after one assignment
\* of the store.
C9_Witness ==
    \E c \in Cycles :
        /\ pc[c] = "returned"
        /\ installs[c] = 1
        /\ Cardinality(DOMAIN installed) = 2

\* The metrics the code computes from the two snapshots of sampler k.
OwnMetrics(c, k) ==
    [cpu |-> calculateCPUPercent(samplers[c][k].currentStats, samplers[c][k].prevStats),
     mem |-> memPercentOf(samplers[c][k].currentStats)]

\* The results installed by a drained cycle are those of each target's own
\* snapshots, whatever happened to the other targets.
OwnResultsInstalled ==
    \A c \in Cycles :
        pc[c] = "unlock" =>
            \A k \in Targets(c) \ FailedTargets(c) :
                /\ StrippedName(c, k) \in DOMAIN Stats
                /\ Stats[StrippedName(c, k)] = OwnMetrics(c, k)

\* C10 (as amended): a failing or slow target does not corrupt the results
\* of the others, which are those of their own two snapshots; but no result
\* of the cycle reaches the store before every sampler of the cycle, the
\* slow or failing one included, has returned.
C10_OwnResultsAfterBarrier ==
    /\ OwnResultsInstalled
    /\ \A c \in Cycles :
          pc[c] \in {"close", "lock", "make", "drain", "unlock"} =>
              \A k \in Targets(c) : samplers[c][k].pc = "exited"

\* C10 witness: a cycle over the containers a and b has drained its channel;
\* b failed and a holds the metrics of its own snapshots (cpu 100, mem 70).
C10_Witness ==
    \E c \in Cycles :
        /\ pc[c] = "unlock"
        /\ Len(containers[c]) = 2
        /\ Cardinality(FailedTargets(c)) = 1
        /\ <<"a">> \in DOMAIN Stats
        /\ Stats[<<"a">>] = [cpu |-> << 100, 1 >>, mem |-> << 70, 1 >>]

\* C10 (as claimed): the results installed are those of each target's own
\* snapshots, and the result of a target that has finished reaches the store
\* without waiting for the other targets of the cycle to finish.
C10_AvailableWithoutWaiting ==
    /\ []OwnResultsInstalled
    /\ \A c \in Cycles : \A k \in 1..MaxTargets :
          (k \in Targets(c) /\ samplers[c][k].pc = "exited")
              ~> (pc[c] \in {"unlock", "returned"})

(* ---------------------- properties: the sampler's steps ---------------- *)

\* C11: a sampler fetches its first snapshot, waits the interval and fetches
\* its second snapshot, in this order: it starts waiting only with the first
\* snapshot decoded, issues the second fetch only out of the completed wait,
\* and when the first fetch or its decoding fails it goes straight to sending
\* the sentinel, with neither snapshot held, and never waits or fetches
\* afterwards.
C11_FetchWaitFetch ==
    [][ \A c \in Cycles : \A k \in Targets(c) :
          ( /\ k \in DOMAIN samplers'[c]
            /\ samplers'[c][k].pc # samplers[c][k].pc )
          => LET from == samplers[c][k].pc
                 to   == samplers'[c][k].pc
             IN  /\ to = "decode0" => from = "fetch0"
                 /\ to = "sleep" =>
                       /\ from = "decode0"
                       /\ samplers'[c][k].prevStats \in
                             FirstSnapshots(containers[c][k].ID)
                 /\ to = "fetch1" => from = "sleep"
                 /\ to = "decode1" => from = "fetch1"
                 /\ (from \in {"fetch0", "decode0"} /\ samplers'[c][k].err # "nil") =>
                       /\ to = "send"
                       /\ samplers'[c][k].out = ErrorResult(containers[c][k])
                       /\ samplers'[c][k].prevStats = ZeroStats
                       /\ samplers'[c][k].currentStats = ZeroStats
                 /\ from \in {"send", "deferred", "exited"} =>
                       to \in {"deferred", "exited"} ]_vars

\* C11 witness: one sampler of a cycle has returned after the failure of its
\* first snapshot, holding no snapshot, while another has waited the interval
\* with its first snapshot decoded and is issuing its second fetch.
C11_Witness ==
    \E c \in Cycles : \E k1, k2 \in Targets(c) :
        /\ samplers[c][k1].pc = "exited"
        /\ samplers[c][k1].err = "error"
        /\ samplers[c][k1].prevStats = ZeroStats
        /\ samplers[c][k1].currentStats = ZeroStats
        /\ samplers[c][k2].pc = "fetch1"
        /\ samplers[c][k2].prevStats \in FirstSnapshots(containers[c][k2].ID)

(* ------------------- properties: the channel and the lock -------------- *)

\* C12: the channel of a cycle over N targets has capacity N and never holds
\* more than N results, and whenever a sampler is about to send, the channel
\* is open and has a free slot: no send blocks, whichever samplers succeeded
\* or failed and in whatever order they ran.
C12_SendNeverBlocks ==
    \A c \in Cycles :
        /\ resultChan[c].cap = Len(containers[c])
        /\ Len(resultChan[c].buf) <= Len(containers[c])
        /\ \A k \in Targets(c) :
              samplers[c][k].pc = "send" =>
                  /\ ~resultChan[c].closed
                  /\ Len(resultChan[c].buf) < resultChan[c].cap

\* C12 witness: in a cycle over two targets the sentinel of a failed sampler
\* sits in the channel while the other sampler, which succeeded, is about to
\* send into the last free slot.
C12_Witness ==
    \E c \in Cycles : \E k1, k2 \in Targets(c) :
        /\ Len(containers[c]) = 2
        /\ samplers[c][k1].pc \in {"deferred", "exited"}
        /\ samplers[c][k1].err = "error"
        /\ resultChan[c].buf = << samplers[c][k1].out >>
        /\ samplers[c][k2].pc = "send"
        /\ samplers[c][k2].err = "nil"

\* The samplers of cycle c that have been started and have not returned.
Running(c) == { k \in Targets(c) : samplers[c][k].pc \notin {"unborn", "exited"} }

\* C13: while a sampler of a cycle is still running (fetching, waiting or
\* sending) the cycle does not hold the mutex, has not assigned the store and
\* the store is the Aggregate of the latest completed cycle, free for the
\* readers; this holds for as long as the sampler stays where it is, so a
\* fetch that never returns leaves that Aggregate in place and readable.
C13_StoreUntouchedBeforeBarrier ==
    \A c \in Cycles :
        (Running(c) # {} \/ pc[c] \in {"spawn", "wait"}) =>
            /\ StMu # c
            /\ StMu \in {"unlocked"} \cup Readers
            /\ installs[c] = 0
            /\ Stats = installed
            /\ \A r \in Readers : rpc[r] = "read" => view[r] = installed

\* C13 witness: the second fetch of a sampler is outstanding, its sibling has
\* returned, and a reader holds the mutex and reads the two-key Aggregate of
\* the previous cycle.
C13_Witness ==
    \E c \in Cycles : \E k1, k2 \in Targets(c) : \E r \in Readers :
        /\ samplers[c][k1].pc = "fetch1"
        /\ samplers[c][k2].pc = "exited"
        /\ StMu = r
        /\ Cardinality(DOMAIN installed) = 2
        /\ view[r] = installed
        /\ Stats = installed

\* C16: the channel of a cycle is closed only when every sampler of the
\* cycle has made its send and returned, so no sampler sends on a closed
\* channel (none panics); the closed channel holds the N results sent, and
\* the drain loop receives exactly these N, one key each, before it ends.
C16_CloseAfterAllSends ==
    \A c \in Cycles :
        LET N == Len(containers[c])
        IN  /\ resultChan[c].closed =>
                  \A k \in Targets(c) : samplers[c][k].pc = "exited"
            /\ \A k \in Targets(c) : samplers[c][k].pc # "panic"
            /\ resultChan[c].closed <=> pc[c] \in {"lock", "make", "drain", "unlock"}
            /\ pc[c] \in {"close", "lock", "make"} => Len(resultChan[c].buf) = N
            /\ pc[c] = "drain" =>
                  Len(resultChan[c].buf) + Cardinality(DOMAIN Stats) = N
            /\ pc[c] = "unlock" =>
                  /\ resultChan[c].buf = << >>
                  /\ Cardinality(DOMAIN Stats) = N

\* C16 witness: the drain loop of a cycle over two targets has received one
\* of the two results of the closed channel; the other is still in it.
C16_Witness ==
    \E c \in Cycles :
        /\ pc[c] = "drain"
        /\ resultChan[c].closed
        /\ Len(containers[c]) = 2
        /\ Len(resultChan[c].buf) = 1
        /\ Cardinality(DOMAIN Stats) = 1
        /\ \A k \in Targets(c) : samplers[c][k].pc = "exited"

\* C17: a cycle that has taken the mutex releases it: the drain loop under
\* the lock ends, and a reader waiting while a cycle holds the mutex is
\* granted it in the end; the mutex is held by a cycle exactly between its
\* Lock and its Unlock, never once the call has returned.
C17_LockReleased ==
    /\ \A r \in Readers :
          (StMu \in Cycles) ~> (StMu = r /\ rpc[r] = "read")
    /\ [](\A c \in Cycles :
            /\ StMu = c => pc[c] \in {"make", "drain", "unlock"}
            /\ pc[c] \in {"make", "drain", "unlock"} => StMu = c)

\* C17 witness: a cycle over two targets has swapped the store and returned,
\* and a reader has been granted the mutex and reads the new Aggregate.
C17_Witness ==
    \E c \in Cycles : \E r \in Readers :
        /\ pc[c] = "returned"
        /\ installs[c] = 1
        /\ StMu = r
        /\ rpc[r] = "read"
        /\ Cardinality(DOMAIN view[r]) = 2
        /\ view[r] = Stats

(* --------------------- properties: successive cycles ------------------- *)

\* C14: when a cycle has drained its channel, every entry of the store is
\* keyed by the name of a target of this cycle's list and holds the result
\* this cycle's sampler of that target produced: a target of an earlier cycle
\* that is not in the list has no entry and no value of an earlier cycle is
\* left; before the first cycle the store is empty.
C14_OnlyLatestCycle ==
    /\ \A c \in Cycles :
          pc[c] = "unlock" =>
              \A n \in DOMAIN Stats :
                  \E k \in Targets(c) :
                      /\ n \in {DisplayName(c, k), TrimPrefix(DisplayName(c, k), <<"/">>)}
                      /\ samplers[c][k].out = SingleResult(n, Stats[n])
    /\ (\A c \in Cycles : pc[c] = "idle") => Stats = EmptyMap

\* C14 witness: a cycle has drained its channel after an earlier cycle whose
\* Aggregate held a target that is no longer listed, and a target listed in
\* both whose metrics have changed.
C14_Witness ==
    \E c \in Cycles :
        /\ pc[c] = "unlock"
        /\ \E n \in DOMAIN installed : n \notin DOMAIN Stats
        /\ \E n \in DOMAIN installed \cap DOMAIN Stats :
              /\ "cpu" \in DOMAIN installed[n]
              /\ "cpu" \in DOMAIN Stats[n]
              /\ installed[n] # Stats[n]

(* ---------------------- properties: concurrent cycles ------------------ *)

\* The keys of the results of the samplers of cycle c.
ResultKeys(c) == UNION { DOMAIN samplers[c][k].out : k \in Targets(c) }

\* The results of the samplers of cycle c, merged into one map.
CycleResults(c) ==
    [n \in ResultKeys(c) |->
        samplers[c][CHOOSE k \in Targets(c) : n \in DOMAIN samplers[c][k].out].out[n]]

\* C15: with two calls of GetContainerStats in flight at once, the map a
\* call has filled when it ends its swap is exactly the merged results of
\* its own samplers, never a mixture with the other call's; the store with
\* the mutex free is the map of the latest swap; and each call's channel and
\* WaitGroup carry its own samplers' results and signals only.
C15_SwapOfOneCycle ==
    /\ \A c \in Cycles :
          /\ pc[c] = "unlock" => Stats = CycleResults(c)
          /\ \A i \in 1..Len(resultChan[c].buf) :
                \E k \in Targets(c) :
                    /\ samplers[c][k].pc \in {"deferred", "exited"}
                    /\ resultChan[c].buf[i] = samplers[c][k].out
          /\ pc[c] \in {"spawn", "wait", "close", "lock", "make"} =>
                /\ Len(resultChan[c].buf) =
                      Cardinality({ k \in Targets(c) :
                                      samplers[c][k].pc \in {"deferred", "exited"} })
                /\ wg[c] = Cardinality(Running(c))
          /\ \A k \in Targets(c) : samplers[c][k].pc # "panic"
    /\ StMu = "unlocked" => Stats = installed
    /\ StMu # "unlocked" => pc[StMu] \in {"make", "drain", "unlock"}

\* C15 witness: the first call has filled the store with the results of its
\* two samplers while the second call, whose channel is closed and holds
\* its one result, waits for the mutex; the store holds the first call's
\* entry for the container both calls sampled, which differs from the
\* second call's.
C15_Witness ==
    /\ pc["g1"] = "unlock"
    /\ Cardinality(DOMAIN Stats) = 2
    /\ pc["g2"] = "lock"
    /\ resultChan["g2"].closed
    /\ Len(resultChan["g2"].buf) = 1
    /\ \E n \in DOMAIN Stats \cap ResultKeys("g2") :
          Stats[n] # CycleResults("g2")[n]

(* -------------------- properties: the empty target list ---------------- *)

\* C18: a call that is answered an empty list of containers does not block:
\* its barrier is open at once, its channel of capacity 0 is closed and
\* empty when the drain loop reads it, and the call, unless the listing
\* failed, returns having assigned the store once, the store being empty
\* whatever it held before.
C18_EmptyListInstallsEmpty ==
    /\ \A c \in Cycles :
          (pc[c] = "list") ~>
              \/ pc[c] = "failed"
              \/ /\ pc[c] = "returned"
                 /\ installs[c] = 1
                 /\ Stats = EmptyMap
                 /\ StMu # c
    /\ [](\A c \in Cycles :
            (Len(containers[c]) = 0 /\ pc[c] \in {"wait", "close", "lock", "make",
                                                  "drain", "unlock"}) =>
                /\ wg[c] = 0
                /\ Targets(c) = {}
                /\ resultChan[c].cap = 0
                /\ resultChan[c].buf = << >>
                /\ pc[c] \in {"drain", "unlock"} =>
                      resultChan[c].closed /\ Stats = EmptyMap)

\* C18 witness: a call over no container has drained its channel and holds
\* the mutex; the store is empty and the Aggregate of the cycle before it
\* had two entries.
C18_Witness ==
    \E c \in Cycles :
        /\ pc[c] = "unlock"
        /\ Len(containers[c]) = 0
        /\ StMu = c
        /\ Stats = EmptyMap
        /\ Cardinality(DOMAIN installed) = 2

====
